---- MODULE Spec2Model ----
(***************************************************************************)
(* Model of the Playwright verification scripts under                      *)
(* src/jules-scratch/verification: verify_final.py, verify_login.py,       *)
(* verify_login_v2.py, verify_flow_builder.py, verify_send_message_ui.py.  *)
(*                                                                         *)
(* Every script is a straight-line program of Playwright calls.  A run of  *)
(* a script is a process with a program counter into that program.  The   *)
(* web application is an opaque collaborator: every Playwright call either *)
(* succeeds or raises, chosen nondeterministically.  Exceptions follow     *)
(* Python's rules for try/except, try/finally and the with statement.      *)
(***************************************************************************)
EXTENDS Integers, Sequences, FiniteSets, TLC

VARIABLES
    run,    \* run[r]: the state of scenario process r (a record, see InitRun)
    env,    \* the BASE_URL environment variable of the processes ("" = unset)
    files   \* screenshots on disk: a set of <<path, writer run>>

vars == <<run, env, files>>

----------------------------------------------------------------------------
(* Bounds of the model *)

\* wall-clock seconds the runs can start in: 0..MaxSecond
MaxSecond == 1
\* the most toast texts all_inner_texts() returns
MaxToasts == 1

----------------------------------------------------------------------------
(* Script names and literals of the source *)

Final == "verify_final"
Login == "verify_login"
LoginV2 == "verify_login_v2"
FlowBuilder == "verify_flow_builder"
SendMessage == "verify_send_message_ui"

ScriptList == <<Final, Login, LoginV2, FlowBuilder, SendMessage>>

Scripts == {ScriptList[i] : i \in 1..Len(ScriptList)}

DefaultBaseUrl == "http://localhost:3000"
OtherBaseUrl == "http://staging.example:8080"
Unset == ""

password == "password123"
name == "Test User"

DashboardPng == "jules-scratch/verification/dashboard_after_login.png"
VerificationPng == "jules-scratch/verification/verification.png"

----------------------------------------------------------------------------
(* time.time(), int() and the f-strings *)

\* time.time() returns a float: whole seconds and tenths of a second
Clock == { s * 10 + f : s \in 0..MaxSecond, f \in {0, 5} }

\* int(time.time()) truncates the fraction
UniqueId(t) == t \div 10

\* f"test_user_{unique_id}@example.com"
TestUserEmail(unique_id) == "test_user_" \o ToString(unique_id) \o "@example.com"

\* f"test.user.{int(time.time())}@example.com"
TestDotUserEmail(unique_id) == "test.user." \o ToString(unique_id) \o "@example.com"

\* os.environ.get("BASE_URL", "http://localhost:3000")
EnvironGet(e) == IF e = Unset THEN DefaultBaseUrl ELSE e

\* str.startswith
StartsWith(s, p) == Len(s) >= Len(p) /\ SubSeq(s, 1, Len(p)) = p

----------------------------------------------------------------------------
(* The programs.  A step is one statement of the source: its line, the     *)
(* operation, the selector it acts on and the argument it passes.          *)

S(line, op, sel, arg) == [line |-> line, op |-> op, sel |-> sel, arg |-> arg]

\* the index of the first step of a line
At(prog, line) ==
    CHOOSE i \in 1..Len(prog) :
        prog[i].line = line /\ \A j \in 1..(i - 1) : prog[j].line # line

VerifyFinal(base_url, email) == <<
    S(7, "launch", "", ""),
    S(8, "new_page", "", ""),
    S(10, "time", "", ""),
    S(11, "email", "", ""),
    S(15, "environ_get", "", ""),
    S(18, "goto", "", base_url \o "/register"),
    S(19, "fill", "Name", name),
    S(20, "fill", "Email", email),
    S(21, "fill", "Password", password),
    S(22, "click", "Create account", ""),
    S(25, "expect_url", "", base_url \o "/login"),
    S(29, "fill", "Email", email),
    S(30, "fill", "Password", password),
    S(31, "click", "Sign in", ""),
    S(34, "expect_url", "", base_url \o "/dashboard"),
    S(38, "expect_visible", "Contactos Totales", ""),
    S(41, "screenshot", "", DashboardPng),
    S(44, "close", "", ""),
    S(6, "exit", "", "") >>

VerifyLogin(base_url, email) == <<
    S(7, "launch", "", ""),
    S(8, "new_page", "", ""),
    S(11, "time", "", ""),
    S(12, "email", "", ""),
    S(16, "environ_get", "", ""),
    S(19, "goto", "", base_url \o "/register"),
    S(20, "fill", "Name", name),
    S(21, "fill", "Email", email),
    S(22, "fill", "Password", password),
    S(23, "click", "Create account", ""),
    S(26, "expect_url", "", base_url \o "/login"),
    S(29, "fill", "Email", email),
    S(30, "fill", "Password", password),
    S(31, "click", "Sign in", ""),
    S(34, "expect_url", "", base_url \o "/dashboard"),
    S(38, "expect_visible", "Contactos Totales", ""),
    S(41, "screenshot", "", DashboardPng),
    S(43, "close", "", ""),
    S(6, "exit", "", "") >>

\* lines 40..52 are the except clause of the try at line 26
VerifyLoginV2(base_url, email) == <<
    S(8, "launch", "", ""),
    S(9, "new_page", "", ""),
    S(12, "time", "", ""),
    S(13, "email", "", ""),
    S(17, "environ_get", "", ""),
    S(20, "goto", "", base_url \o "/register"),
    S(21, "fill", "Name", name),
    S(22, "fill", "Email", email),
    S(23, "fill", "Password", password),
    S(24, "click", "Create account", ""),
    S(30, "expect_visible", "[role=status] Registration successful!", ""),
    S(33, "expect_url", "", base_url \o "/login"),
    S(40, "all_inner_texts", "[role=status]", ""),
    S(46, "print_toast_error", "", ""),
    S(49, "page_url", "", ""),
    S(52, "reraise", "", ""),
    S(55, "fill", "Email", email),
    S(56, "fill", "Password", password),
    S(57, "click", "Sign in", ""),
    S(60, "expect_url", "", base_url \o "/dashboard"),
    S(64, "expect_visible", "Contactos Totales", ""),
    S(67, "screenshot", "", DashboardPng),
    S(70, "close", "", ""),
    S(7, "exit", "", "") >>

\* the URLs and the identity are literals; line 43 is the else branch of line 37
VerifyFlowBuilder(base_url, email) == <<
    S(4, "launch", "", ""),
    S(5, "new_context", "", ""),
    S(6, "new_page", "", ""),
    S(10, "goto", "", "http://localhost:3000/login"),
    S(11, "fill", "Email", "test@test.com"),
    S(12, "fill", "Password", "password"),
    S(13, "click", "Sign in", ""),
    S(16, "expect_url", "", "http://localhost:3000/dashboard"),
    S(19, "goto", "", "http://localhost:3000/dashboard/flows"),
    S(22, "click", "Crear flujo", ""),
    S(25, "expect_visible", "Nodos", ""),
    S(34, "bounding_box", "div[data-node-type='message']", "source"),
    S(35, "bounding_box", ".react-flow__pane", "target"),
    S(37, "if_bounds", "", ""),
    S(38, "mouse_move", "", "source"),
    S(39, "mouse_down", "", ""),
    S(40, "mouse_move", "", "target"),
    S(41, "mouse_up", "", ""),
    S(43, "raise", "", "Could not find source or target for drag and drop"),
    S(46, "click", ".react-flow__node-message", ""),
    S(49, "click", "Use Template", ""),
    S(52, "screenshot", "", VerificationPng),
    S(55, "close", "", ""),
    S(57, "exit", "", "") >>

\* the URLs are literals; lines 40..55 are the body of the if at line 39
VerifySendMessageUi(base_url, email) == <<
    S(5, "launch", "", ""),
    S(6, "new_context", "", ""),
    S(7, "new_page", "", ""),
    S(11, "time", "", ""),
    S(11, "email", "", ""),
    S(14, "goto", "", "http://localhost:3000/register"),
    S(15, "fill", "Nombre completo", "Test User"),
    S(16, "fill", "Correo electronico", email),
    S(17, "fill", "Contrasena", "password123"),
    S(18, "fill", "Confirmar contrasena", "password123"),
    S(19, "click", "Crear cuenta", ""),
    S(22, "expect_url", "", "http://localhost:3000/login"),
    S(25, "fill", "Correo electronico", email),
    S(26, "fill", "Contrasena", "password123"),
    S(27, "click", "Iniciar sesion", ""),
    S(30, "expect_url", "", "http://localhost:3000/dashboard"),
    S(33, "goto", "", "http://localhost:3000/dashboard/contacts"),
    S(36, "wait_for_load_state", "", "networkidle"),
    S(39, "is_visible", "Aun no tienes contactos", ""),
    S(40, "click", "Nuevo contacto", ""),
    S(43, "expect_visible", "heading Nuevo Contacto", ""),
    S(44, "fill", "Nombre y Apellido", "Test Contact"),
    S(45, "fill", "Telefono", "1234567890"),
    S(46, "click", "Guardar Contacto", ""),
    S(49, "expect_hidden", "heading Nuevo Contacto", ""),
    S(52, "reload", "", ""),
    S(54, "wait_for_load_state", "", "networkidle"),
    S(55, "expect_visible", "table", ""),
    S(58, "click", "a[href^=/dashboard/contacts/]", ""),
    S(61, "expect_url_prefix", "", "http://localhost:3000/dashboard/contacts/"),
    S(64, "expect_visible", "Enviar mensaje directo", ""),
    S(67, "screenshot", "", VerificationPng),
    S(70, "close", "", ""),
    S(72, "exit", "", "") >>

\* the programs with one statement changed, as a slip in a script would
Variants(script, base_url, email) ==
    CASE script = Final -> VerifyFinal(base_url, email)
      [] script = Login -> VerifyLogin(base_url, email)
      [] script = LoginV2 -> VerifyLoginV2(base_url, email)
      [] script = FlowBuilder -> VerifyFlowBuilder(base_url, email)
      [] script = SendMessage -> VerifySendMessageUi(base_url, email)

\* verify_login without the wait for the redirect to /login (line 26)
ProgramWithoutRedirectWait(script, base_url, email) ==
    LET prog == Variants(script, base_url, email)
    IN  IF script = Login
        THEN SubSeq(prog, 1, At(prog, 26) - 1) \o SubSeq(prog, At(prog, 26) + 1, Len(prog))
        ELSE prog

\* verify_login saving its screenshot as verification.png
ProgramWithOnePath(script, base_url, email) ==
    LET prog == Variants(script, base_url, email)
    IN  IF script = Login
        THEN [i \in DOMAIN prog |-> IF prog[i].op = "screenshot"
                                     THEN S(prog[i].line, "screenshot", "", VerificationPng)
                                     ELSE prog[i]]
        ELSE prog

Program(script, base_url, email) ==
    CASE script = Final -> VerifyFinal(base_url, email)
      [] script = Login -> VerifyLogin(base_url, email)
      [] script = LoginV2 -> VerifyLoginV2(base_url, email)
      [] script = FlowBuilder -> VerifyFlowBuilder(base_url, email)
      [] script = SendMessage -> VerifySendMessageUi(base_url, email)

----------------------------------------------------------------------------
(* Control flow *)

\* the step executed after step i returns normally
Succ(script, prog, i) ==
    CASE script = LoginV2 /\ prog[i].line = 33 -> At(prog, 55)     \* try body done: skip the except clause
      [] script = LoginV2 /\ prog[i].line = 40 -> At(prog, 49)     \* inner try done: skip its except clause
      [] script = FlowBuilder /\ prog[i].line = 41 -> At(prog, 46) \* if branch done: skip the else
      [] OTHER -> i + 1

\* where an exception raised at a line is taken: an except clause that
\* catches it, a finally clause that runs and lets it go on, or the exit of
\* the with statement
Handler(script, prog, line) ==
    CASE script = LoginV2 /\ line \in 27..34 -> [to |-> At(prog, 40), catches |-> TRUE]
      [] script = LoginV2 /\ line \in 40..44 -> [to |-> At(prog, 46), catches |-> TRUE]
      [] script = FlowBuilder /\ line \in 9..52 -> [to |-> At(prog, 55), catches |-> FALSE]
      [] script = SendMessage /\ line \in 10..67 -> [to |-> At(prog, 70), catches |-> FALSE]
      [] OTHER -> [to |-> Len(prog), catches |-> FALSE]

\* the exception a failing step raises
NoExc == [type |-> "none", line |-> 0]

Raised(step) ==
    [type |-> CASE step.op \in {"expect_url", "expect_url_prefix", "expect_visible", "expect_hidden"}
                     -> "AssertionError"
                [] step.op = "raise" -> "Exception"
                [] OTHER -> "TimeoutError",
     line |-> step.line]

\* the Playwright calls of a scenario: each acts on the page once
Interactions ==
    {"goto", "fill", "click", "expect_url", "expect_url_prefix", "expect_visible",
     "expect_hidden", "wait_for_load_state", "reload", "mouse_move", "mouse_down", "mouse_up"}

\* the calls that can raise (a timeout, a failed expectation, a missing
\* element); launching the browser, opening the page and closing the browser
\* are taken to return
Fallible == Interactions \cup {"is_visible", "bounding_box", "all_inner_texts", "screenshot"}

----------------------------------------------------------------------------
(* State *)

\* a process before its first statement
InitRun(script) ==
    [script |-> script,
     pc |-> 1,                    \* index of the next step of the program
     browser |-> "none",          \* "none", "open" (launched), "closed" (browser.close() returned)
     playwright |-> "running",    \* "stopped" once the with statement is left
     unique_id |-> -1,            \* int(time.time()), -1 before the call
     email |-> "",
     base_url |-> "",
     source_bounds |-> "unset",   \* "None" or "box" once bounding_box() returned
     target_bounds |-> "unset",
     empty |-> "unset",           \* "yes"/"no": what is_visible() of the empty-state text returned
     toasts |-> -1,               \* how many texts all_inner_texts() returned, -1 before the call
     exc |-> NoExc,               \* the exception that is propagating
     handling |-> << >>,          \* the exceptions being handled by except clauses, innermost last
     log |-> << >>,               \* the lines of the Playwright calls attempted, in order
     failed |-> {},               \* the lines that raised
     closeCalls |-> 0,            \* calls of browser.close()
     outcome |-> "running"]       \* "done": returned normally, "failed": uncaught exception

EnvValues == {Unset, DefaultBaseUrl, OtherBaseUrl}

\* one scenario process
Init ==
    /\ run \in [{1} -> {InitRun(s) : s \in Scripts}]
    /\ env \in EnvValues
    /\ files = {}

\* two scenario processes started by a harness, side by side; the processes
\* are interchangeable, so the pairs of scripts are taken in one order only
InitPar ==
    /\ \E i \in 1..Len(ScriptList) : \E j \in i..Len(ScriptList) :
          run = [r \in {1, 2} |-> InitRun(ScriptList[IF r = 1 THEN i ELSE j])]
    /\ env = Unset
    /\ files = {}

Runs == DOMAIN run

\* the program of run r, with the arguments its variables give the calls
Prog(r) == Program(run[r].script, run[r].base_url, run[r].email)

\* the statements of each script: their lines and operations do not depend
\* on the variables
Statements == [s \in Scripts |-> Program(s, "", "")]

\* the statement run r executes next
Cur(r) == Statements[run[r].script][run[r].pc]

Running(r) == run[r].outcome = "running"

\* the step at pc returned normally
Advance(r) == Succ(run[r].script, Statements[run[r].script], run[r].pc)

----------------------------------------------------------------------------
(* Exceptions *)

\* the exception is swallowed and the script goes on with the next statement
ThrowIgnored(r, e) == [run[r] EXCEPT !.pc = Advance(r)]

\* a statement that raised for the first time is attempted again
ThrowRetry(r, e) ==
    LET h == Handler(run[r].script, Statements[run[r].script], Cur(r).line)
    IN  IF Cur(r).line \notin run[r].failed
        THEN run[r]
        ELSE [run[r] EXCEPT !.pc = h.to, !.exc = e, !.handling = << >>]

\* the state after exception e is raised at the current step
Throw(r, e) ==
    LET h == Handler(run[r].script, Statements[run[r].script], Cur(r).line)
    IN  IF h.catches
        THEN [run[r] EXCEPT !.pc = h.to, !.handling = Append(@, e)]
        ELSE [run[r] EXCEPT !.pc = h.to, !.exc = e, !.handling = << >>]

\* the inner exception stays the current one after its except clause
LeaveExceptKeeps(handling) == handling

\* leaving an except clause restores the exception of the enclosing clause
LeaveExcept(handling) == SubSeq(handling, 1, Len(handling) - 1)

\* the bare raise statement: the exception being handled
Current(handling) == handling[Len(handling)]

----------------------------------------------------------------------------
(* Actions: one per kind of statement *)

\* browser = p.chromium.launch(headless=True)
Launch(r) ==
    /\ Running(r) /\ Cur(r).op = "launch"
    /\ run' = [run EXCEPT ![r].browser = "open", ![r].pc = Advance(r)]
    /\ UNCHANGED <<env, files>>

\* context = browser.new_context(); page = context.new_page()
NewPage(r) ==
    /\ Running(r) /\ Cur(r).op \in {"new_context", "new_page"}
    /\ run' = [run EXCEPT ![r].pc = Advance(r)]
    /\ UNCHANGED <<env, files>>

\* unique_id = int(time.time())
ReadClock(r) ==
    /\ Running(r) /\ Cur(r).op = "time"
    /\ \E t \in Clock :
          run' = [run EXCEPT ![r].unique_id = UniqueId(t), ![r].pc = Advance(r)]
    /\ UNCHANGED <<env, files>>

\* email = f"test_user_{unique_id}@example.com"
FormatEmail(r) ==
    /\ Running(r) /\ Cur(r).op = "email"
    /\ run' = [run EXCEPT ![r].email = IF run[r].script = SendMessage
                                         THEN TestDotUserEmail(run[r].unique_id)
                                         ELSE TestUserEmail(run[r].unique_id),
                          ![r].pc = Advance(r)]
    /\ UNCHANGED <<env, files>>

\* base_url = os.environ.get("BASE_URL", "http://localhost:3000")
ReadBaseUrl(r) ==
    /\ Running(r) /\ Cur(r).op = "environ_get"
    /\ run' = [run EXCEPT ![r].base_url = EnvironGet(env), ![r].pc = Advance(r)]
    /\ UNCHANGED <<env, files>>

\* a goto, fill, click, expectation, wait, reload or mouse call returns
Interact(r) ==
    /\ Running(r) /\ Cur(r).op \in Interactions
    /\ run' = [run EXCEPT ![r].log = Append(@, Cur(r).line), ![r].pc = Advance(r)]
    /\ UNCHANGED <<env, files>>

\* a Playwright call raises, or the raise statement of line 43 runs
Raise(r) ==
    /\ Running(r) /\ Cur(r).op \in Fallible \cup {"raise"}
    /\ LET thrown == Throw(r, Raised(Cur(r)))
       IN  run' = [run EXCEPT ![r] =
                     [thrown EXCEPT !.log = IF Cur(r).op = "raise" THEN @ ELSE Append(@, Cur(r).line),
                                    !.failed = @ \cup {Cur(r).line}]]
    /\ UNCHANGED <<env, files>>

\* the test of line 39 negated
IsVisibleInverted(r) ==
    /\ Running(r) /\ Cur(r).op = "is_visible"
    /\ \E b \in {"yes", "no"} :
          run' = [run EXCEPT ![r].empty = b,
                             ![r].log = Append(@, Cur(r).line),
                             ![r].pc = IF b = "no" THEN Advance(r)
                                       ELSE At(Statements[run[r].script], 58)]
    /\ UNCHANGED <<env, files>>

\* if page.get_by_text("Aun no tienes contactos").is_visible():
IsVisible(r) ==
    /\ Running(r) /\ Cur(r).op = "is_visible"
    /\ \E b \in {"yes", "no"} :
          run' = [run EXCEPT ![r].empty = b,
                             ![r].log = Append(@, Cur(r).line),
                             ![r].pc = IF b = "yes" THEN Advance(r) ELSE At(Statements[run[r].script], 58)]
    /\ UNCHANGED <<env, files>>

\* source_bounds = source.bounding_box(); target_bounds = target.bounding_box()
BoundingBox(r) ==
    /\ Running(r) /\ Cur(r).op = "bounding_box"
    /\ \E b \in {"None", "box"} :
          run' = [run EXCEPT ![r].source_bounds = IF Cur(r).arg = "source" THEN b ELSE @,
                             ![r].target_bounds = IF Cur(r).arg = "target" THEN b ELSE @,
                             ![r].log = Append(@, Cur(r).line),
                             ![r].pc = Advance(r)]
    /\ UNCHANGED <<env, files>>

\* if source_bounds and target_bounds: ... else: raise
IfBounds(r) ==
    /\ Running(r) /\ Cur(r).op = "if_bounds"
    /\ run' = [run EXCEPT ![r].pc = IF run[r].source_bounds = "box" /\ run[r].target_bounds = "box"
                                      THEN Advance(r) ELSE At(Statements[run[r].script], 43)]
    /\ UNCHANGED <<env, files>>

\* toasts = page.locator('[role="status"]').all_inner_texts(), and the printing of them
CollectToasts(r) ==
    /\ Running(r) /\ Cur(r).op = "all_inner_texts"
    /\ \E n \in 0..MaxToasts :
          run' = [run EXCEPT ![r].toasts = n,
                             ![r].log = Append(@, Cur(r).line),
                             ![r].pc = Advance(r)]
    /\ UNCHANGED <<env, files>>

\* except Exception as toast_error: print(...)
PrintToastError(r) ==
    /\ Running(r) /\ Cur(r).op = "print_toast_error"
    /\ run' = [run EXCEPT ![r].handling = LeaveExcept(@), ![r].pc = Advance(r)]
    /\ UNCHANGED <<env, files>>

\* print(f"Current URL is: {page.url}", file=sys.stderr)
PrintPageUrl(r) ==
    /\ Running(r) /\ Cur(r).op = "page_url"
    /\ run' = [run EXCEPT ![r].pc = Advance(r)]
    /\ UNCHANGED <<env, files>>

\* the except clause of line 36 without its raise: the script goes on at line 55
ReraiseMissing(r) ==
    /\ Running(r) /\ Cur(r).op = "reraise"
    /\ run' = [run EXCEPT ![r].handling = << >>, ![r].pc = Advance(r)]
    /\ UNCHANGED <<env, files>>

\* raise
Reraise(r) ==
    /\ Running(r) /\ Cur(r).op = "reraise"
    /\ run' = [run EXCEPT ![r] = Throw(r, Current(run[r].handling))]
    /\ UNCHANGED <<env, files>>

\* page.screenshot(path=...) returns: the file is written
Screenshot(r) ==
    /\ Running(r) /\ Cur(r).op = "screenshot"
    /\ run' = [run EXCEPT ![r].log = Append(@, Cur(r).line), ![r].pc = Advance(r)]
    /\ files' = files \cup {<<Cur(r).arg, r>>}
    /\ UNCHANGED env

\* browser.close(), reached in sequence or as the finally clause
Close(r) ==
    /\ Running(r) /\ Cur(r).op = "close"
    /\ run' = [run EXCEPT ![r].browser = "closed", ![r].closeCalls = @ + 1,
                          ![r].pc = Advance(r)]
    /\ UNCHANGED <<env, files>>

\* the with sync_playwright() block is left and the process ends
Exit(r) ==
    /\ Running(r) /\ Cur(r).op = "exit"
    /\ run' = [run EXCEPT ![r].playwright = "stopped",
                          ![r].outcome = IF run[r].exc = NoExc THEN "done" ELSE "failed"]
    /\ UNCHANGED <<env, files>>

Next ==
    \/ \E r \in Runs : Launch(r)
    \/ \E r \in Runs : NewPage(r)
    \/ \E r \in Runs : ReadClock(r)
    \/ \E r \in Runs : FormatEmail(r)
    \/ \E r \in Runs : ReadBaseUrl(r)
    \/ \E r \in Runs : Interact(r)
    \/ \E r \in Runs : Raise(r)
    \/ \E r \in Runs : IsVisible(r)
    \/ \E r \in Runs : BoundingBox(r)
    \/ \E r \in Runs : IfBounds(r)
    \/ \E r \in Runs : CollectToasts(r)
    \/ \E r \in Runs : PrintToastError(r)
    \/ \E r \in Runs : PrintPageUrl(r)
    \/ \E r \in Runs : Reraise(r)
    \/ \E r \in Runs : Screenshot(r)
    \/ \E r \in Runs : Close(r)
    \/ \E r \in Runs : Exit(r)

Spec == Init /\ [][Next]_vars

SpecPar == InitPar /\ [][Next]_vars

----------------------------------------------------------------------------
(* Vocabulary of the properties *)

Terminated(r) == run[r].outcome # "running"

\* line was attempted by run r
Logged(r, line) == \E i \in DOMAIN run[r].log : run[r].log[i] = line

\* how many times line was attempted by run r
Count(r, line) == Cardinality({i \in DOMAIN run[r].log : run[r].log[i] = line})

\* the statement of a line, with the arguments run r gives it
StepOf(r, line) == Prog(r)[At(Prog(r), line)]

\* the lines of a script whose operation is one of ops
LinesOf(script, ops) ==
    {Statements[script][i].line : i \in {j \in DOMAIN Statements[script] : Statements[script][j].op \in ops}}

\* the scripted actions: navigation, fill, click, expectation, wait, mouse, query, screenshot
ScriptedOps == Interactions \cup {"is_visible", "bounding_box", "screenshot"}

\* the body of the if statement of verify_send_message_ui (contact creation)
CreationLines == {40, 43, 44, 45, 46, 49, 52, 54, 55}

\* the scripted actions a successful run of a script must have executed
Required(r) ==
    LinesOf(run[r].script, ScriptedOps)
        \ (IF run[r].script = SendMessage /\ run[r].empty # "yes" THEN CreationLines ELSE {})

----------------------------------------------------------------------------
(* C1 *)

\* C1: in every script, a browser that was launched has had browser.close()
\* executed by the time the scenario has terminated, on the failure paths as
\* on the success path.
C1_BrowserClosedOnEveryExit ==
    \A r \in Runs :
        Terminated(r) /\ run[r].browser # "none" =>
            run[r].browser = "closed" /\ run[r].closeCalls = 1

\* what the code does: close on every exit path in the two scripts with a
\* finally clause, and on the success path only in the other three
BrowserClosedWhereFinally ==
    \A r \in Runs :
        Terminated(r) /\ (run[r].script \in {FlowBuilder, SendMessage} \/ run[r].outcome = "done")
            => run[r].browser = "closed" /\ run[r].closeCalls = 1

----------------------------------------------------------------------------
(* C2 *)

\* C2: the screenshot is attempted only after every preceding assertion and
\* interaction of the scenario has been executed and has succeeded; a run in
\* which an earlier step failed never executes page.screenshot and writes no
\* file.
C2_ScreenshotOnlyAfterSuccess ==
    \A r \in Runs :
        LET shot == LinesOf(run[r].script, {"screenshot"})
        IN  /\ \A i \in DOMAIN run[r].log :
                   run[r].log[i] \in shot =>
                       /\ \A j \in 1..(i - 1) : run[r].log[j] \notin run[r].failed
                       /\ \A l \in Required(r) \ shot : \E j \in 1..(i - 1) : run[r].log[j] = l
                       /\ run[r].script = FlowBuilder =>
                              run[r].source_bounds = "box" /\ run[r].target_bounds = "box"
            /\ (run[r].failed \ shot # {}) => \A l \in shot : ~Logged(r, l)
            /\ (\E f \in files : f[2] = r) =>
                   \E l \in shot : Logged(r, l) /\ run[r].failed = {}

\* a run has written its screenshot
C2_Witness ==
    \E r \in Runs : (\E f \in files : f[2] = r) /\ run[r].outcome = "done"

\* a run failed at an expectation and has terminated without a screenshot
C2_WitnessFailure ==
    \E r \in Runs : run[r].outcome = "failed" /\ run[r].exc.type = "AssertionError" /\ files = {}

----------------------------------------------------------------------------
(* C3 *)

\* C3: two executions that read the clock in the same second do not generate
\* the same email address.
C3_EmailUniquePerExecution ==
    \A r1, r2 \in Runs :
        /\ r1 # r2
        /\ run[r1].email # "" /\ run[r2].email # ""
        /\ run[r1].unique_id = run[r2].unique_id
        => run[r1].email # run[r2].email

----------------------------------------------------------------------------
(* C4 *)

LoginLinesV2 == {55, 56, 57}

\* C4: in verify_login_v2, when the toast expectation (line 30) or the
\* redirect expectation (line 33) fails, no login step is ever executed:
\* the fields of lines 55-56 are not filled and Sign in (line 57) is not
\* clicked, and the run does not end successfully.
C4_NoLoginAfterToastFailure ==
    \A r \in Runs :
        run[r].script = LoginV2 /\ run[r].failed \cap {30, 33} # {} =>
            /\ \A l \in LoginLinesV2 : ~Logged(r, l)
            /\ run[r].outcome # "done"
            /\ run[r].pc \notin {At(Statements[LoginV2], l) : l \in LoginLinesV2}

\* the toast was seen, the redirect was not, and the run has terminated
C4_Witness ==
    \E r \in Runs :
        /\ run[r].script = LoginV2 /\ Terminated(r)
        /\ 33 \in run[r].failed /\ Logged(r, 30)

\* the toast was not seen and the run has terminated
C4_WitnessToast ==
    \E r \in Runs : run[r].script = LoginV2 /\ Terminated(r) /\ 30 \in run[r].failed

----------------------------------------------------------------------------
(* C5 *)

\* the state of the scenario state machine a statement belongs to
PhaseOf(script, line) ==
    CASE script = Final ->
            (CASE line \in 18..22 -> "registering"
               [] line = 25 -> "awaiting_redirect_to_login"
               [] line \in 29..31 -> "logging_in"
               [] line = 34 -> "awaiting_redirect_to_dashboard"
               [] line \in 37..38 -> "verifying_domain_state"
               [] OTHER -> "capturing_artifact")
      [] script = Login ->
            (CASE line \in 19..23 -> "registering"
               [] line = 26 -> "awaiting_redirect_to_login"
               [] line \in 29..31 -> "logging_in"
               [] line = 34 -> "awaiting_redirect_to_dashboard"
               [] line \in 37..38 -> "verifying_domain_state"
               [] OTHER -> "capturing_artifact")
      [] script = LoginV2 ->
            (CASE line \in 20..24 -> "registering"
               [] line \in 29..33 -> "awaiting_redirect_to_login"
               [] line \in 55..57 -> "logging_in"
               [] line = 60 -> "awaiting_redirect_to_dashboard"
               [] line \in 63..64 -> "verifying_domain_state"
               [] OTHER -> "capturing_artifact")
      [] script = FlowBuilder ->
            (CASE line \in 10..13 -> "logging_in"
               [] line = 16 -> "awaiting_redirect_to_dashboard"
               [] line \in 19..49 -> "verifying_domain_state"
               [] OTHER -> "capturing_artifact")
      [] script = SendMessage ->
            (CASE line \in 14..19 -> "registering"
               [] line = 22 -> "awaiting_redirect_to_login"
               [] line \in 25..27 -> "logging_in"
               [] line = 30 -> "awaiting_redirect_to_dashboard"
               [] line \in 33..64 -> "verifying_domain_state"
               [] OTHER -> "capturing_artifact")

\* the state of the state machine run r is in: start until the first page
\* action, failed from the moment a statement raises, done once the script
\* has returned normally
Phase(r) ==
    IF run[r].outcome = "done" THEN "done"
    ELSE IF run[r].outcome = "failed" \/ run[r].exc # NoExc \/ run[r].handling # << >> THEN "failed"
    ELSE IF Cur(r).op \in {"launch", "new_context", "new_page", "time", "email", "environ_get"}
         THEN "start"
    ELSE PhaseOf(run[r].script, Cur(r).line)

Order ==
    <<"start", "registering", "awaiting_redirect_to_login", "logging_in",
      "awaiting_redirect_to_dashboard", "verifying_domain_state", "capturing_artifact", "done">>

\* q follows p in the order, or is the failure exit from a state that is not terminal
Follows(p, q) ==
    \/ \E i \in 1..(Len(Order) - 1) : Order[i] = p /\ Order[i + 1] = q
    \/ q = "failed" /\ p # "done"

\* C5 as stated: every scenario visits start, registering,
\* awaiting_redirect_to_login, logging_in, awaiting_redirect_to_dashboard,
\* verifying_domain_state, capturing_artifact, done in this order with none
\* skipped, or leaves for failed.
C5_SameStateMachine ==
    [][\A r \in Runs : Phase(r)' # Phase(r) => Follows(Phase(r), Phase(r)')]_vars

\* C5 as amended: the scenarios that register visit the states in the order
\* above with none skipped; verify_flow_builder goes from start straight to
\* logging_in and never registers; failed is entered from a state that is
\* not terminal and is never left; a run that has ended is done or failed,
\* and it is done only with the screenshot taken and no exception.
C5_StateMachineButFlowBuilder ==
    /\ [][\A r \in Runs :
            Phase(r)' # Phase(r) =>
                \/ Follows(Phase(r), Phase(r)') /\ Phase(r) # "failed"
                \/ /\ run[r].script = FlowBuilder
                   /\ Phase(r) = "start" /\ Phase(r)' = "logging_in"]_vars
    /\ [](\A r \in Runs :
            /\ run[r].script = FlowBuilder =>
                  Phase(r) \notin {"registering", "awaiting_redirect_to_login"}
            /\ Terminated(r) => Phase(r) \in {"done", "failed"}
            /\ Phase(r) = "done" =>
                  /\ run[r].exc = NoExc /\ run[r].failed = {}
                  /\ \E l \in LinesOf(run[r].script, {"screenshot"}) : Logged(r, l))

\* a run of verify_flow_builder is done
C5_Witness ==
    \E r \in Runs : run[r].script = FlowBuilder /\ Phase(r) = "done"

\* a run of a registering scenario is done
C5_WitnessRegistering ==
    \E r \in Runs : run[r].script = LoginV2 /\ Phase(r) = "done"

----------------------------------------------------------------------------
(* C6 *)

\* C6: in verify_send_message_ui the creation steps (lines 40-55) are
\* executed if and only if the empty state was observed, and in both cases a
\* successful run ends with the same continuation: click the first contact
\* link (58), expect a URL under /dashboard/contacts/ (61), expect
\* "Enviar mensaje directo" (64), screenshot (67).
C6_BothContactStatesConverge ==
    \A r \in Runs :
        run[r].script = SendMessage =>
            /\ (\E l \in CreationLines : Logged(r, l)) => run[r].empty = "yes"
            /\ run[r].empty = "yes" /\ (\E l \in {58, 61, 64, 67} : Logged(r, l)) =>
                   \A l \in CreationLines : Logged(r, l) /\ l \notin run[r].failed
            /\ run[r].outcome = "done" =>
                   /\ run[r].empty \in {"yes", "no"}
                   /\ Len(run[r].log) >= 4
                   /\ SubSeq(run[r].log, Len(run[r].log) - 3, Len(run[r].log)) = <<58, 61, 64, 67>>
                   /\ StepOf(r, 58).op = "click"
                   /\ StepOf(r, 61).op = "expect_url_prefix"
                   /\ StepOf(r, 61).arg = "http://localhost:3000/dashboard/contacts/"
                   /\ StepOf(r, 64).sel = "Enviar mensaje directo"
                   /\ ((\E l \in CreationLines : Logged(r, l)) <=> run[r].empty = "yes")

\* a successful run that saw the empty state and created a contact
C6_Witness ==
    \E r \in Runs :
        run[r].script = SendMessage /\ run[r].outcome = "done" /\ run[r].empty = "yes"

\* a successful run that found contacts listed
C6_WitnessListed ==
    \E r \in Runs :
        run[r].script = SendMessage /\ run[r].outcome = "done" /\ run[r].empty = "no"

----------------------------------------------------------------------------
(* C7 *)

\* C7: in verify_login_v2, when the toast check (30) or the redirect check
\* (33) fails, the run ends in failure with that same exception, whether
\* all_inner_texts() returns texts, returns an empty list or raises, and no
\* step after the except clause is executed.
C7_DiagnosticsKeepTheFailure ==
    \A r \in Runs :
        run[r].script = LoginV2 /\ run[r].failed \cap {30, 33} # {} =>
            /\ \A i \in DOMAIN run[r].log : run[r].log[i] < 55
            /\ run[r].outcome # "done"
            /\ Terminated(r) =>
                   /\ run[r].outcome = "failed"
                   /\ run[r].exc.line \in run[r].failed \cap {30, 33}
                   /\ run[r].exc = Raised(StepOf(r, run[r].exc.line))
                   /\ Logged(r, 40)
                   /\ (run[r].toasts \in 0..MaxToasts) # (40 \in run[r].failed)

\* the check failed, collecting the toasts raised too, and the run has ended
C7_Witness ==
    \E r \in Runs :
        /\ run[r].script = LoginV2 /\ Terminated(r)
        /\ 30 \in run[r].failed /\ 40 \in run[r].failed

\* the check failed, the list of toasts was empty, and the run has ended
C7_WitnessEmpty ==
    \E r \in Runs :
        run[r].script = LoginV2 /\ Terminated(r) /\ 33 \in run[r].failed /\ run[r].toasts = 0

----------------------------------------------------------------------------
(* C8 *)

\* C8 as stated: two runs never write the same screenshot path.
C8_NoSharedScreenshotPath ==
    \A f, g \in files : f[1] = g[1] => f[2] = g[2]

\* C8 as amended: the screenshot path is fixed per script, not per run.
\* verify_final, verify_login and verify_login_v2 write
\* dashboard_after_login.png; verify_flow_builder and verify_send_message_ui
\* write verification.png.  A run writes no other path, so two runs write
\* the same path exactly when their scripts are in the same group, and runs
\* of scripts of different groups never do.
C8_PathFixedPerScriptGroup ==
    /\ \A f \in files :
          \/ f[1] = DashboardPng /\ run[f[2]].script \in {Final, Login, LoginV2}
          \/ f[1] = VerificationPng /\ run[f[2]].script \in {FlowBuilder, SendMessage}
    /\ \A r \in Runs : run[r].outcome = "done" => \E f \in files : f[2] = r
    /\ \A f, g \in files :
          (run[f[2]].script \in {Final, Login, LoginV2}) # (run[g[2]].script \in {Final, Login, LoginV2})
              => f[1] # g[1]

\* two runs of different scripts have both written dashboard_after_login.png
C8_Witness ==
    \E r1, r2 \in Runs :
        /\ run[r1].script # run[r2].script
        /\ <<DashboardPng, r1>> \in files /\ <<DashboardPng, r2>> \in files

\* two runs of scripts of different groups have both written their screenshot
C8_WitnessApart ==
    \E r1, r2 \in Runs :
        <<DashboardPng, r1>> \in files /\ <<VerificationPng, r2>> \in files

----------------------------------------------------------------------------
(* C9 *)

\* C9: every URL a scenario navigates to or expects is formed from the value
\* of BASE_URL, http://localhost:3000 when it is unset.
C9_UrlsFormedFromBaseUrl ==
    \A r \in Runs :
        \A i \in DOMAIN run[r].log :
            StepOf(r, run[r].log[i]).op \in {"goto", "expect_url", "expect_url_prefix"} =>
                StartsWith(StepOf(r, run[r].log[i]).arg, EnvironGet(env) \o "/")

\* what the code does: the three scripts that read BASE_URL form their URLs from it
UrlsFormedFromBaseUrlWhereRead ==
    \A r \in Runs :
        run[r].script \in {Final, Login, LoginV2} =>
            \A i \in DOMAIN run[r].log :
                StepOf(r, run[r].log[i]).op \in {"goto", "expect_url"} =>
                    StartsWith(StepOf(r, run[r].log[i]).arg, EnvironGet(env) \o "/")

----------------------------------------------------------------------------
(* C10 *)

\* the scripted actions of a script
Scripted(script) == LinesOf(script, ScriptedOps)

\* nothing of the scenario runs after a statement has raised, but the
\* collection of the toasts in the except clause of verify_login_v2
NothingAfterFailure(r) ==
    \A i, j \in DOMAIN run[r].log :
        i < j /\ run[r].log[i] \in run[r].failed =>
            run[r].script = LoginV2 /\ run[r].log[j] = 40

\* C10 as stated: every scripted action is attempted at most once, and
\* exactly once in a run that succeeds; after a failure nothing is executed
\* again and the run fails.
C10_EveryActionExactlyOnce ==
    \A r \in Runs :
        /\ \A l \in Scripted(run[r].script) : Count(r, l) <= 1
        /\ run[r].outcome = "done" => \A l \in Scripted(run[r].script) : Count(r, l) = 1
        /\ NothingAfterFailure(r)
        /\ run[r].failed # {} => run[r].outcome # "done"

\* C10 as amended: every scripted action is attempted at most once; in a
\* run that succeeds every scripted action is attempted exactly once, except
\* the contact-creation steps of verify_send_message_ui (lines 40-55), which
\* are attempted exactly once when the empty state was observed and not at
\* all otherwise; after a failure nothing is executed again and the run
\* fails.
C10_AtMostOnceAndOnceUnlessSkipped ==
    \A r \in Runs :
        /\ \A l \in Scripted(run[r].script) \cup {40} : Count(r, l) <= 1
        /\ run[r].outcome = "done" =>
              /\ \A l \in Required(r) : Count(r, l) = 1
              /\ \A l \in Scripted(run[r].script) \ Required(r) : Count(r, l) = 0
              /\ Len(run[r].log) = Cardinality(Required(r))
        /\ NothingAfterFailure(r)
        /\ run[r].failed # {} => run[r].outcome # "done"
        /\ Terminated(r) /\ run[r].failed # {} => run[r].outcome = "failed" /\ run[r].exc # NoExc

\* a run of verify_send_message_ui succeeded without creating a contact
C10_Witness ==
    \E r \in Runs :
        /\ run[r].script = SendMessage /\ run[r].outcome = "done"
        /\ run[r].empty = "no" /\ Count(r, 58) = 1 /\ Count(r, 40) = 0

\* a run failed at a click and has terminated
C10_WitnessFailure ==
    \E r \in Runs :
        Terminated(r) /\ run[r].exc.type = "TimeoutError" /\ Len(run[r].log) > 5

====
